---- MODULE Spec2Model ----
(***************************************************************************)
(* OpenLiveStacker: the blocking message queue (include/sync_queue.h) and  *)
(* the frame/control dispatch stage (src/video_generator.cpp).             *)
(*                                                                         *)
(* Two state machines share this module:                                   *)
(*   SpecQ  - sync_queue<T> driven by producer and consumer threads, at    *)
(*            the granularity of its mutex and condition variable;         *)
(*   Spec   - VideoGenerator::run, one action per message handler, fed by  *)
(*            a producer that enqueues messages on its input queue.        *)
(***************************************************************************)
EXTENDS Integers, Sequences, FiniteSets, TLC

(***************************************************************************)
(* Bounds                                                                  *)
(***************************************************************************)
\* calls of push per producer thread, calls of pop per consumer thread
MaxPush == 2
MaxPop == 2

\* two producer threads and two consumer threads on one queue
Producers == {1, 2}
Consumers == {3, 4}
Threads == Producers \cup Consumers
NoThread == 0

\* messages enqueued on the dispatch stage's input in one run
MaxMsgs == 4

\* calls of load_driver, drivers and get in one run
MaxCalls == 5

\* messages enqueued in one run of a stacking session
MaxMsgsC == 5

\* the format pipeline: messages enqueued in one run, and how many of them
\* are frames drawn from every format
MaxMsgsF == 2
MaxFrames == 1

VARIABLES
    data_,      \* sync_queue::data_ : the container, head first
    lock_,      \* sync_queue::lock_ : the thread owning the mutex, or NoThread
    cond_,      \* sync_queue::cond_ : the threads blocked in cond_.wait
    qpc,        \* per thread: position inside push / pop
    npush,      \* per producer: pushes called so far
    npop,       \* per consumer: pops called so far
    waited,     \* per consumer: the current pop has blocked in cond_.wait
    pushed,     \* history: values in the order push appended them
    popped      \* history: [by, val, waited] in the order pops returned

qvars == <<data_, lock_, cond_, qpc, npush, npop, waited, pushed, popped>>

VARIABLES
    data_queue_,            \* VideoGenerator::data_queue_ : the input queue
    live_out_,              \* VideoGenerator::live_out_
    stack_out_,             \* VideoGenerator::stack_out_
    debug_out_,             \* VideoGenerator::debug_out_
    plate_solving_out_,     \* VideoGenerator::plate_solving_out_, when not null
    has_plate,              \* plate_solving_out_ is not a null pointer
    stacking_active_,
    stacking_in_process_,
    debug_active_,
    pc,                     \* run(): "run" in the loop, "done" after break,
                            \* "aborted" when an exception left run()
    enq,                    \* history: the messages enqueued on the input
    seen,                   \* history: per popped message, the session state
                            \* it met and what became of it
    trace                   \* the effects of the latest iteration, in order

dvars == <<data_queue_, live_out_, stack_out_, debug_out_, plate_solving_out_,
           has_plate, stacking_active_, stacking_in_process_, debug_active_,
           pc, enq, seen, trace>>

VARIABLES
    driver_names,   \* camera.cpp: static driver_names, index = driver id
    driver_calls,   \* camera.cpp: static driver_calls, the factory pointers
    handles,        \* per library path: dlopen handles not yet closed
    ncalls,         \* calls made to the registry and the conversions
    last,           \* the latest call: its arguments, the library calls it
                    \* made in order, and how it ended
    loaded          \* history: [name, func] of every load that inserted

cvars == <<driver_names, driver_calls, handles, ncalls, last, loaded>>

vars == <<qvars, dvars, cvars>>

(***************************************************************************)
(* sync_queue                                                              *)
(***************************************************************************)
\* what front() yields on an empty container (undefined behaviour)
Garbage == <<0, 0>>

front(q) == IF q = <<>> THEN Garbage ELSE Head(q)
pop_front(q) == IF q = <<>> THEN <<>> ELSE Tail(q)

QInit ==
    /\ data_ = <<>>
    /\ lock_ = NoThread
    /\ cond_ = {}
    /\ qpc = [t \in Threads |-> "idle"]
    /\ npush = [p \in Producers |-> 0]
    /\ npop = [c \in Consumers |-> 0]
    /\ waited = [c \in Consumers |-> FALSE]
    /\ pushed = <<>>
    /\ popped = <<>>

\* push, line 13: the guard's constructor takes the mutex
PushLock(p) ==
    /\ qpc[p] = "idle"
    /\ npush[p] < MaxPush
    /\ lock_ = NoThread
    /\ lock_' = p
    /\ qpc' = [qpc EXCEPT ![p] = "push_locked"]
    /\ npush' = [npush EXCEPT ![p] = @ + 1]
    /\ UNCHANGED <<data_, cond_, npop, waited, pushed, popped>>
    /\ UNCHANGED <<dvars, cvars>>

\* cond_.notify_one(): one blocked thread, if any, leaves the wait set
notify_one(pcs) ==
    IF cond_ = {}
    THEN cond_' = cond_ /\ qpc' = pcs
    ELSE \E w \in cond_ :
            /\ cond_' = cond_ \ {w}
            /\ qpc' = [pcs EXCEPT ![w] = "woken"]

PushBodyFront(p) ==
    /\ qpc[p] = "push_locked"
    /\ lock_ = p
    /\ data_' = <<<<p, npush[p]>>>> \o data_
    /\ pushed' = Append(pushed, <<p, npush[p]>>)
    /\ notify_one([qpc EXCEPT ![p] = "idle"])
    /\ lock_' = NoThread
    /\ UNCHANGED <<npush, npop, waited, popped>>
    /\ UNCHANGED <<dvars, cvars>>

PushBodyNoNotify(p) ==
    /\ qpc[p] = "push_locked"
    /\ lock_ = p
    /\ data_' = Append(data_, <<p, npush[p]>>)
    /\ pushed' = Append(pushed, <<p, npush[p]>>)
    /\ qpc' = [qpc EXCEPT ![p] = "idle"]
    /\ lock_' = NoThread
    /\ UNCHANGED <<cond_, npush, npop, waited, popped>>
    /\ UNCHANGED <<dvars, cvars>>

\* push, lines 14-16: push_back, notify_one, the guard releases the mutex
PushBody(p) ==
    /\ qpc[p] = "push_locked"
    /\ lock_ = p
    /\ data_' = Append(data_, <<p, npush[p]>>)
    /\ pushed' = Append(pushed, <<p, npush[p]>>)
    /\ notify_one([qpc EXCEPT ![p] = "idle"])
    /\ lock_' = NoThread
    /\ UNCHANGED <<npush, npop, waited, popped>>
    /\ UNCHANGED <<dvars, cvars>>

\* pop, line 20: the guard's constructor takes the mutex
PopLock(c) ==
    /\ qpc[c] = "idle"
    /\ npop[c] < MaxPop
    /\ lock_ = NoThread
    /\ lock_' = c
    /\ qpc' = [qpc EXCEPT ![c] = "pop_locked"]
    /\ npop' = [npop EXCEPT ![c] = @ + 1]
    /\ waited' = [waited EXCEPT ![c] = FALSE]
    /\ UNCHANGED <<data_, cond_, npush, pushed, popped>>
    /\ UNCHANGED <<dvars, cvars>>

\* pop, lines 21-22: the container is empty, cond_.wait releases the mutex
\* and blocks the caller
PopWait(c) ==
    /\ qpc[c] = "pop_locked"
    /\ lock_ = c
    /\ data_ = <<>>
    /\ cond_' = cond_ \cup {c}
    /\ lock_' = NoThread
    /\ qpc' = [qpc EXCEPT ![c] = "waiting"]
    /\ waited' = [waited EXCEPT ![c] = TRUE]
    /\ UNCHANGED <<data_, npush, npop, pushed, popped>>
    /\ UNCHANGED <<dvars, cvars>>

\* cond_.wait may return without a notification
SpuriousWake(c) ==
    /\ qpc[c] = "waiting"
    /\ c \in cond_
    /\ cond_' = cond_ \ {c}
    /\ qpc' = [qpc EXCEPT ![c] = "woken"]
    /\ UNCHANGED <<data_, lock_, npush, npop, waited, pushed, popped>>
    /\ UNCHANGED <<dvars, cvars>>

\* cond_.wait re-takes the mutex before it returns; the loop tests again
WaitReacquire(c) ==
    /\ qpc[c] = "woken"
    /\ lock_ = NoThread
    /\ lock_' = c
    /\ qpc' = [qpc EXCEPT ![c] = "pop_locked"]
    /\ UNCHANGED <<data_, cond_, npush, npop, waited, pushed, popped>>
    /\ UNCHANGED <<dvars, cvars>>

PopTakeNoWait(c) ==
    /\ qpc[c] = "pop_locked"
    /\ lock_ = c
    /\ popped' = Append(popped, [by |-> c, val |-> front(data_), waited |-> waited[c]])
    /\ data_' = pop_front(data_)
    /\ lock_' = NoThread
    /\ qpc' = [qpc EXCEPT ![c] = "idle"]
    /\ UNCHANGED <<cond_, npush, npop, waited, pushed>>
    /\ UNCHANGED <<dvars, cvars>>

\* pop, lines 21, 24-26: the container is not empty; front, pop_front,
\* return, the guard releases the mutex
PopTake(c) ==
    /\ qpc[c] = "pop_locked"
    /\ lock_ = c
    /\ data_ # <<>>
    /\ popped' = Append(popped, [by |-> c, val |-> front(data_), waited |-> waited[c]])
    /\ data_' = pop_front(data_)
    /\ lock_' = NoThread
    /\ qpc' = [qpc EXCEPT ![c] = "idle"]
    /\ UNCHANGED <<cond_, npush, npop, waited, pushed>>
    /\ UNCHANGED <<dvars, cvars>>

\* the steps of a call in progress
ProducerStep(p) == PushBody(p)
ConsumerStep(c) == PopWait(c) \/ WaitReacquire(c) \/ PopTake(c)

NextQ ==
    \/ \E p \in Producers : PushLock(p)
    \/ \E p \in Producers : PushBody(p)
    \/ \E c \in Consumers : PopLock(c)
    \/ \E c \in Consumers : PopWait(c)
    \/ \E c \in Consumers : SpuriousWake(c)
    \/ \E c \in Consumers : WaitReacquire(c)
    \/ \E c \in Consumers : PopTake(c)

(***************************************************************************)
(* Messages on the dispatch stage's input                                  *)
(***************************************************************************)
ControlOps == {"init", "pause", "resume", "save", "cancel", "update"}

\* StackerControl: save_inputs is read for ctl_init only
ControlInputs ==
    {[tag |-> "Control", op |-> "init", save_inputs |-> b] : b \in BOOLEAN}
    \cup {[tag |-> "Control", op |-> o, save_inputs |-> FALSE] :
            o \in ControlOps \ {"init"}}

ShutDownData == [tag |-> "Shutdown"]

\* messages that are neither ShutDownData, CameraFrame nor StackerControl
OtherInputs == {[tag |-> "Stats"], [tag |-> "Error"]}

BayerPatterns == {"RGGB", "GRBG", "BGGR", "GBRG"}

\* the frames the producer enqueues: a decodable mjpeg frame, a raw8 frame
\* of the right length, a raw8 frame one byte too long, and a raw16 frame
\* that carries no Bayer pattern
FrameInputs ==
    { [tag |-> "Frame", format |-> "mjpeg", width |-> 2, height |-> 1,
       size |-> 3, bayer |-> "NA", decode |-> "ok"],
      [tag |-> "Frame", format |-> "raw8", width |-> 2, height |-> 1,
       size |-> 2, bayer |-> "RGGB", decode |-> "ok"],
      [tag |-> "Frame", format |-> "raw8", width |-> 2, height |-> 1,
       size |-> 3, bayer |-> "RGGB", decode |-> "ok"],
      [tag |-> "Frame", format |-> "raw16", width |-> 2, height |-> 1,
       size |-> 4, bayer |-> "NA", decode |-> "ok"] }

Messages == {ShutDownData} \cup ControlInputs \cup OtherInputs \cup FrameInputs

\* the formats whose length process_frame checks
FixedFormats == {"mono8", "raw8", "yuv2", "mono16", "raw16", "rgb24", "rgb48"}

BayerTags == {"NA"} \cup BayerPatterns

\* buffer lengths of a 2x1 frame at 1, 2, 3 and 6 bytes per pixel, and one
\* length that fits no format
FrameSizes == {2, 4, 6, 12, 5}

\* frames of every format for the format pipeline: every fixed-size format
\* at every length; raw formats of the right length under every Bayer tag;
\* mjpeg buffers that decode, that cv::imdecode answers with an empty
\* matrix, and on which it throws; the error tag and a tag outside the enum
FormatFrames ==
    {[tag |-> "Frame", format |-> f, width |-> 2, height |-> 1, size |-> n,
      bayer |-> (IF f \in {"raw8", "raw16"} THEN "RGGB" ELSE "NA"),
      decode |-> "ok"] : f \in FixedFormats, n \in FrameSizes}
    \cup {[tag |-> "Frame", format |-> "raw8", width |-> 2, height |-> 1,
           size |-> 2, bayer |-> b, decode |-> "ok"] : b \in BayerTags}
    \cup {[tag |-> "Frame", format |-> "raw16", width |-> 2, height |-> 1,
           size |-> 4, bayer |-> b, decode |-> "ok"] : b \in BayerTags}
    \cup {[tag |-> "Frame", format |-> "mjpeg", width |-> 2, height |-> 1,
           size |-> n, bayer |-> "NA", decode |-> d] :
              n \in {5, 12}, d \in {"ok", "empty", "throws"}}
    \cup {[tag |-> "Frame", format |-> f, width |-> 2, height |-> 1,
           size |-> 5, bayer |-> "NA", decode |-> "ok"] :
              f \in {"error", "unknown"}}

\* the messages that may surround a frame of FormatFrames
AroundInputs ==
    {ShutDownData, [tag |-> "Stats"],
     [tag |-> "Control", op |-> "update", save_inputs |-> FALSE],
     [tag |-> "Control", op |-> "pause", save_inputs |-> FALSE]}

(***************************************************************************)
(* VideoGenerator                                                          *)
(***************************************************************************)
push_head(q, v) == <<v>> \o q

\* sync_queue::push as the dispatch stage uses it: append at the tail
push_tail(q, v) == Append(q, v)

bpp_of_rgb48_as_rgb24(format) ==
    CASE format = "mjpeg" -> -1
      [] format \in {"mono8", "raw8"} -> 1
      [] format \in {"yuv2", "mono16", "raw16"} -> 2
      [] format \in {"rgb24", "rgb48"} -> 3
      [] OTHER -> 0

\* process_frame, lines 47-70: bytes per pixel; -1 for mjpeg, 0 stands for
\* the default branch, which returns
bpp_of(format) ==
    CASE format = "mjpeg" -> -1
      [] format \in {"mono8", "raw8"} -> 1
      [] format \in {"yuv2", "mono16", "raw16"} -> 2
      [] format = "rgb24" -> 3
      [] format = "rgb48" -> 6
      [] OTHER -> 0

\* process_frame, lines 122-136: with no Bayer pattern matched, rgb stays an
\* empty matrix and handle_jpeg_stack hands it to cv::imencode
EncodesEmptyImage(frame) ==
    frame.format \in {"raw8", "raw16"} /\ frame.bayer \notin BayerPatterns

\* what cv::imencode may do with an empty image: throw, or return
EncodeOutcomes(frame) ==
    IF EncodesEmptyImage(frame) THEN {"throws", "returns"} ELSE {"returns"}

process_frame_result_no_default(frame, active, plate, enc) ==
    LET bpp == bpp_of(frame.format) IN
    IF bpp > 0 /\ frame.size # frame.height * frame.width * bpp THEN "drop"
    ELSE IF frame.format = "mjpeg"
         THEN IF (active \/ plate) /\ frame.decode = "throws"
              THEN "drop" ELSE "fwd"
    ELSE IF EncodesEmptyImage(frame) /\ enc = "throws" THEN "throw"
    ELSE "fwd"

\* process_frame, lines 47-160: "drop" when it returns before the fan-out,
\* "throw" when an exception leaves it, "fwd" when it reaches line 161
process_frame_result(frame, active, plate, enc) ==
    LET bpp == bpp_of(frame.format) IN
    IF bpp = 0 THEN "drop"
    ELSE IF bpp > 0 /\ frame.size # frame.height * frame.width * bpp THEN "drop"
    ELSE IF frame.format = "mjpeg"
         THEN IF (active \/ plate) /\ frame.decode = "throws"
              THEN "drop" ELSE "fwd"
    ELSE IF EncodesEmptyImage(frame) /\ enc = "throws" THEN "throw"
    ELSE "fwd"

handle_jpeg_stack_always(image, active, plate) ==
    <<<<"jpeg_frame", IF image = "empty" THEN "encoded_empty" ELSE "encoded">>,
      <<"frame", image>>>>

\* handle_jpeg_stack, lines 22-44, when cv::imencode returns: the writes to
\* the frame, in order; image is "matrix" or, for an empty matrix, "empty"
handle_jpeg_stack(image, active, plate) ==
    <<<<"jpeg_frame", IF image = "empty" THEN "encoded_empty" ELSE "encoded">>>>
    \o (IF active \/ plate THEN <<<<"frame", image>>>> ELSE <<>>)

\* process_frame, lines 135, 144 and 101, 109, 117: the dynamic range
frame_dr_of(format) ==
    IF format \in {"raw16", "mono16", "rgb48"} THEN 65535 ELSE 255

\* process_frame, lines 76-148: the writes to the frame object, in program
\* order, up to the return, the exception or the fan-out
process_frame_writes(frame, active, plate, enc) ==
    LET bpp == bpp_of(frame.format)
        dr == <<<<"frame_dr", frame_dr_of(frame.format)>>>>
        raw == <<<<"raw", "view">>>>
    IN
    IF bpp = 0 THEN <<>>
    ELSE IF bpp > 0 /\ frame.size # frame.height * frame.width * bpp THEN <<>>
    ELSE IF frame.format = "mjpeg"
         THEN <<<<"jpeg_frame", "source">>>>
              \o (IF (active \/ plate) /\ frame.decode # "throws"
                  THEN LET m == IF frame.decode = "ok" THEN "matrix" ELSE "empty"
                       IN <<<<"frame", m>>, <<"frame_dr", 255>>, <<"raw", m>>>>
                  ELSE <<>>)
    ELSE IF frame.format \in {"yuv2", "rgb24", "rgb48"}
         THEN dr \o raw \o handle_jpeg_stack("matrix", active, plate)
    ELSE IF frame.format \in {"raw8", "raw16"}
         THEN IF EncodesEmptyImage(frame)
              THEN IF enc = "throws" THEN dr
                   ELSE dr \o handle_jpeg_stack("empty", active, plate) \o raw
              ELSE dr \o handle_jpeg_stack("matrix", active, plate) \o raw
    ELSE dr \o handle_jpeg_stack("matrix", active, plate) \o raw

\* a CameraFrame as the capture path hands it over: no rendition yet
NewFrame == [jpeg_frame |-> "null", frame |-> "null", raw |-> "null",
             frame_dr |-> 0]

RECURSIVE ApplyWrites(_, _)
ApplyWrites(obj, ws) ==
    IF ws = <<>> THEN obj
    ELSE ApplyWrites([obj EXCEPT ![ws[1][1]] = ws[1][2]], Tail(ws))

FanOutDebugAlways(active, in_process, debug, plate) ==
    <<"live">>
    \o (IF active THEN <<"stack">> ELSE <<>>)
    \o (IF debug THEN <<"debug">> ELSE <<>>)
    \o (IF plate /\ ~in_process THEN <<"plate">> ELSE <<>>)

FanOutPlateWhilePaused(active, in_process, debug, plate) ==
    <<"live">>
    \o (IF active THEN <<"stack">> ELSE <<>>)
    \o (IF debug /\ active THEN <<"debug">> ELSE <<>>)
    \o (IF plate /\ ~active THEN <<"plate">> ELSE <<>>)

\* process_frame, lines 161-167: the outputs a frame is pushed to, in order
FanOut(active, in_process, debug, plate) ==
    <<"live">>
    \o (IF active THEN <<"stack">> ELSE <<>>)
    \o (IF debug /\ active THEN <<"debug">> ELSE <<>>)
    \o (IF plate /\ ~in_process THEN <<"plate">> ELSE <<>>)

ForwardAllAndPlate == <<"live", "stack", "debug", "plate">>

\* run, lines 175-177 and 209-211: the outputs of control and shutdown
ForwardAll == <<"live", "stack", "debug">>

ctl_switch_resume_half(op, save_inputs, st) ==
    CASE op = "init" -> [active |-> TRUE, in_process |-> TRUE, debug |-> save_inputs]
      [] op = "resume" -> [st EXCEPT !.active = TRUE]
      [] op = "pause" -> [st EXCEPT !.active = FALSE, !.in_process = TRUE]
      [] op \in {"save", "cancel"} -> [st EXCEPT !.active = FALSE, !.in_process = FALSE]
      [] OTHER -> st

ctl_switch_pause_ends(op, save_inputs, st) ==
    CASE op = "init" -> [active |-> TRUE, in_process |-> TRUE, debug |-> save_inputs]
      [] op = "resume" -> [st EXCEPT !.active = TRUE, !.in_process = TRUE]
      [] op = "pause" -> [st EXCEPT !.active = FALSE, !.in_process = FALSE]
      [] op \in {"save", "cancel"} -> [st EXCEPT !.active = FALSE, !.in_process = FALSE]
      [] OTHER -> st

ctl_switch_init_active_only(op, save_inputs, st) ==
    CASE op = "init" -> [st EXCEPT !.active = TRUE, !.debug = save_inputs]
      [] op = "resume" -> [st EXCEPT !.active = TRUE, !.in_process = TRUE]
      [] op = "pause" -> [st EXCEPT !.active = FALSE, !.in_process = TRUE]
      [] op \in {"save", "cancel"} -> [st EXCEPT !.active = FALSE, !.in_process = FALSE]
      [] OTHER -> st

\* run, lines 187-208: the switch on ctl_ptr->op
ctl_switch(op, save_inputs, st) ==
    CASE op = "init" -> [active |-> TRUE, in_process |-> TRUE, debug |-> save_inputs]
      [] op = "resume" -> [st EXCEPT !.active = TRUE, !.in_process = TRUE]
      [] op = "pause" -> [st EXCEPT !.active = FALSE, !.in_process = TRUE]
      [] op \in {"save", "cancel"} -> [st EXCEPT !.active = FALSE, !.in_process = FALSE]
      [] op = "update" -> st
      [] OTHER -> st

Range(q) == {q[i] : i \in 1..Len(q)}

\* the session state as a record
State == [active |-> stacking_active_, in_process |-> stacking_in_process_,
          debug |-> debug_active_]

\* the pushes of one iteration: item goes to the tail of every output named
\* in targets; the other outputs are left alone
PushTo(targets, item) ==
    /\ live_out_' = IF "live" \in Range(targets)
                    THEN push_tail(live_out_, item) ELSE live_out_
    /\ stack_out_' = IF "stack" \in Range(targets)
                     THEN push_tail(stack_out_, item) ELSE stack_out_
    /\ debug_out_' = IF "debug" \in Range(targets)
                     THEN push_tail(debug_out_, item) ELSE debug_out_
    /\ plate_solving_out_' = IF "plate" \in Range(targets)
                             THEN push_tail(plate_solving_out_, item)
                             ELSE plate_solving_out_

PushEvents(targets) == [i \in 1..Len(targets) |-> <<"push", targets[i]>>]

\* the members of VideoGenerator after construction (lines 10-21, 219-222),
\* with an empty input queue; the plate-solving output may be null
DInit ==
    /\ data_queue_ = <<>>
    /\ live_out_ = <<>>
    /\ stack_out_ = <<>>
    /\ debug_out_ = <<>>
    /\ plate_solving_out_ = <<>>
    /\ has_plate \in BOOLEAN
    /\ stacking_active_ = FALSE
    /\ stacking_in_process_ = FALSE
    /\ debug_active_ = FALSE
    /\ pc = "run"
    /\ enq = <<>>
    /\ seen = <<>>
    /\ trace = <<>>

\* a producer (capture thread, control surface, shutdown) pushes a message
\* on the input queue
Enqueue(m) ==
    /\ Len(enq) < MaxMsgs
    /\ data_queue_' = push_tail(data_queue_, [id |-> Len(enq) + 1, msg |-> m])
    /\ enq' = Append(enq, m)
    /\ UNCHANGED <<live_out_, stack_out_, debug_out_, plate_solving_out_,
                   has_plate, stacking_active_, stacking_in_process_,
                   debug_active_, pc, seen, trace>>
    /\ UNCHANGED <<qvars, cvars>>

Seen(result) == [active |-> stacking_active_, in_process |-> stacking_in_process_,
                 debug |-> debug_active_, result |-> result]

\* what a frame's iteration leaves: the state it met, its outcome and the
\* frame object after the writes
SeenFrame(result, ws) ==
    [active |-> stacking_active_, in_process |-> stacking_in_process_,
     debug |-> debug_active_, result |-> result,
     obj |-> ApplyWrites(NewFrame, ws)]

WriteEvents(ws) == [i \in 1..Len(ws) |-> <<"write", ws[i][1]>>]

RunShutdownNoBreak ==
    /\ pc = "run"
    /\ data_queue_ # <<>>
    /\ LET it == front(data_queue_) IN
        /\ it.msg.tag = "Shutdown"
        /\ data_queue_' = pop_front(data_queue_)
        /\ PushTo(ForwardAll, it)
        /\ pc' = "run"
        /\ seen' = Append(seen, Seen("stop"))
        /\ trace' = <<<<"pop", it.id>>>> \o PushEvents(ForwardAll)
    /\ UNCHANGED <<has_plate, stacking_active_, stacking_in_process_,
                   debug_active_, enq>>
    /\ UNCHANGED <<qvars, cvars>>

\* run, lines 172-179: pop yields ShutDownData
RunShutdown ==
    /\ pc = "run"
    /\ data_queue_ # <<>>
    /\ LET it == front(data_queue_) IN
        /\ it.msg.tag = "Shutdown"
        /\ data_queue_' = pop_front(data_queue_)
        /\ PushTo(ForwardAll, it)
        /\ pc' = "done"
        /\ seen' = Append(seen, Seen("stop"))
        /\ trace' = <<<<"pop", it.id>>>> \o PushEvents(ForwardAll) \o <<<<"break">>>>
    /\ UNCHANGED <<has_plate, stacking_active_, stacking_in_process_,
                   debug_active_, enq>>
    /\ UNCHANGED <<qvars, cvars>>

RunFramePublishesEarly ==
    /\ pc = "run"
    /\ data_queue_ # <<>>
    /\ LET it == front(data_queue_) IN
        /\ it.msg.tag = "Frame"
        /\ data_queue_' = pop_front(data_queue_)
        /\ \E enc \in EncodeOutcomes(it.msg) :
            LET r == process_frame_result(it.msg, stacking_active_, has_plate, enc)
                ws == process_frame_writes(it.msg, stacking_active_, has_plate, enc)
                targets == IF r = "fwd"
                           THEN FanOut(stacking_active_, stacking_in_process_,
                                       debug_active_, has_plate)
                           ELSE <<>>
            IN  /\ PushTo(targets, it)
                /\ pc' = IF r = "throw" THEN "aborted" ELSE "run"
                /\ seen' = Append(seen, SeenFrame(r, ws))
                /\ trace' = <<<<"pop", it.id>>, <<"process_frame", r>>>>
                            \o PushEvents(targets) \o WriteEvents(ws)
    /\ UNCHANGED <<has_plate, stacking_active_, stacking_in_process_,
                   debug_active_, enq>>
    /\ UNCHANGED <<qvars, cvars>>

\* run, lines 172, 180-184 and process_frame: pop yields a CameraFrame
RunFrame ==
    /\ pc = "run"
    /\ data_queue_ # <<>>
    /\ LET it == front(data_queue_) IN
        /\ it.msg.tag = "Frame"
        /\ data_queue_' = pop_front(data_queue_)
        /\ \E enc \in EncodeOutcomes(it.msg) :
            LET r == process_frame_result(it.msg, stacking_active_, has_plate, enc)
                ws == process_frame_writes(it.msg, stacking_active_, has_plate, enc)
                targets == IF r = "fwd"
                           THEN FanOut(stacking_active_, stacking_in_process_,
                                       debug_active_, has_plate)
                           ELSE <<>>
            IN  /\ PushTo(targets, it)
                /\ pc' = IF r = "throw" THEN "aborted" ELSE "run"
                /\ seen' = Append(seen, SeenFrame(r, ws))
                /\ trace' = <<<<"pop", it.id>>, <<"process_frame", r>>>>
                            \o WriteEvents(ws) \o PushEvents(targets)
    /\ UNCHANGED <<has_plate, stacking_active_, stacking_in_process_,
                   debug_active_, enq>>
    /\ UNCHANGED <<qvars, cvars>>

\* run, lines 172, 185-213: pop yields a StackerControl
RunControl ==
    /\ pc = "run"
    /\ data_queue_ # <<>>
    /\ LET it == front(data_queue_)
           st == ctl_switch(it.msg.op, it.msg.save_inputs, State)
       IN
        /\ it.msg.tag = "Control"
        /\ data_queue_' = pop_front(data_queue_)
        /\ stacking_active_' = st.active
        /\ stacking_in_process_' = st.in_process
        /\ debug_active_' = st.debug
        /\ PushTo(ForwardAll, it)
        /\ seen' = Append(seen, Seen("ctl"))
        /\ trace' = <<<<"pop", it.id>>, <<"switch", it.msg.op>>>>
                    \o PushEvents(ForwardAll)
    /\ UNCHANGED <<has_plate, pc, enq>>
    /\ UNCHANGED <<qvars, cvars>>

RunOtherToLive ==
    /\ pc = "run"
    /\ data_queue_ # <<>>
    /\ LET it == front(data_queue_) IN
        /\ it.msg.tag \notin {"Shutdown", "Frame", "Control"}
        /\ data_queue_' = pop_front(data_queue_)
        /\ PushTo(<<"live">>, it)
        /\ seen' = Append(seen, Seen("invalid"))
        /\ trace' = <<<<"pop", it.id>>, <<"push", "live">>>>
    /\ UNCHANGED <<has_plate, stacking_active_, stacking_in_process_,
                   debug_active_, pc, enq>>
    /\ UNCHANGED <<qvars, cvars>>

\* run, lines 172, 215: pop yields anything else; logged, nothing pushed
RunOther ==
    /\ pc = "run"
    /\ data_queue_ # <<>>
    /\ LET it == front(data_queue_) IN
        /\ it.msg.tag \notin {"Shutdown", "Frame", "Control"}
        /\ data_queue_' = pop_front(data_queue_)
        /\ PushTo(<<>>, it)
        /\ seen' = Append(seen, Seen("invalid"))
        /\ trace' = <<<<"pop", it.id>>>>
    /\ UNCHANGED <<has_plate, stacking_active_, stacking_in_process_,
                   debug_active_, pc, enq>>
    /\ UNCHANGED <<qvars, cvars>>

(***************************************************************************)
(* CameraDriver registry (src/camera.cpp)                                  *)
(***************************************************************************)
DriverNames == {"a", "b", "c"}
BasePaths == {"", "d1", "d2"}

\* the opt argument of load_driver: a null pointer or a config string
NullOpt == "NULL"
Opts == {NullOpt, "cfg"}

\* load_driver, lines 21-23: the file name handed to dlopen
LibPath(base, name) ==
    (IF base # "" THEN <<base, "/">> ELSE <<>>)
    \o <<"libols_driver_", name, ".so">>

\* load_driver, line 26
FactorySymbol(name) == <<"ols_get_", name, "_driver">>

\* load_driver, line 32
ConfigSymbol(name) == <<"ols_set_", name, "_driver_config">>

\* the driver libraries on disk. In the working directory a, b and c are
\* complete drivers (b's factory returns a null pointer); under d1, a lacks
\* the factory symbol, b lacks the config symbol and c's config function
\* rejects; d2 holds no library.
Libraries ==
    (LibPath("", "a") :> [exports |-> {FactorySymbol("a"), ConfigSymbol("a")},
                          config_rc |-> 0, makes_null |-> FALSE])
    @@ (LibPath("", "b") :> [exports |-> {FactorySymbol("b"), ConfigSymbol("b")},
                             config_rc |-> 0, makes_null |-> TRUE])
    @@ (LibPath("", "c") :> [exports |-> {FactorySymbol("c"), ConfigSymbol("c")},
                             config_rc |-> 0, makes_null |-> FALSE])
    @@ (LibPath("d1", "a") :> [exports |-> {ConfigSymbol("a")},
                               config_rc |-> 0, makes_null |-> FALSE])
    @@ (LibPath("d1", "b") :> [exports |-> {FactorySymbol("b")},
                               config_rc |-> 0, makes_null |-> FALSE])
    @@ (LibPath("d1", "c") :> [exports |-> {FactorySymbol("c"), ConfigSymbol("c")},
                               config_rc |-> 1, makes_null |-> FALSE])

already_loaded_never(name, names) == FALSE

\* load_driver, line 19: std::find over driver_names
already_loaded(name, names) == \E i \in 1..Len(names) : names[i] = name

insert_end(v, q) == Append(q, v)

\* load_driver, lines 42-43: vector::insert at begin()
insert_begin(v, q) == <<v>> \o q

missing_symbol_exit_leaks(path, msg) ==
    [events |-> <<>>, result |-> msg]

\* load_driver, lines 27-30 and 33-36: dlclose, then throw CamError
missing_symbol_exit(path, msg) ==
    [events |-> <<<<"dlclose", path>>>>, result |-> msg]

\* load_driver, lines 19-40, for a name not yet loaded: the library calls it
\* makes, in order, and "ok" or the CamError it throws
load_attempt(name, base, opt) ==
    LET path == LibPath(base, name)
        open == <<<<"dlopen", path>>>>
        getf == <<<<"dlsym", FactorySymbol(name)>>>>
        getc == <<<<"dlsym", ConfigSymbol(name)>>>>
    IN
    IF path \notin DOMAIN Libraries
    THEN [events |-> open, result |-> "Failed to load driver"]
    ELSE IF FactorySymbol(name) \notin Libraries[path].exports
    THEN LET x == missing_symbol_exit(path, "Failed to find driver entry")
         IN [events |-> open \o getf \o x.events, result |-> x.result]
    ELSE IF opt = NullOpt
    THEN [events |-> open \o getf, result |-> "ok"]
    ELSE IF ConfigSymbol(name) \notin Libraries[path].exports
    THEN LET x == missing_symbol_exit(path, "Failed to find driver config entry")
         IN [events |-> open \o getf \o getc \o x.events, result |-> x.result]
    ELSE IF Libraries[path].config_rc # 0
    THEN [events |-> open \o getf \o getc \o <<<<"config", opt>>>>,
          result |-> "Failed to config driver"]
    ELSE [events |-> open \o getf \o getc \o <<<<"config", opt>>>>,
          result |-> "ok"]

\* the handles left open once the library calls of events are made
RECURSIVE HandlesAfter(_, _)
HandlesAfter(h, events) ==
    IF events = <<>> THEN h
    ELSE LET e == Head(events)
             h1 == CASE e[1] = "dlopen" /\ e[2] \in DOMAIN Libraries ->
                            [h EXCEPT ![e[2]] = @ + 1]
                      [] e[1] = "dlclose" -> [h EXCEPT ![e[2]] = @ - 1]
                      [] OTHER -> h
         IN HandlesAfter(h1, Tail(events))

\* the static vectors before any load (lines 14-15)
CInit ==
    /\ driver_names = <<>>
    /\ driver_calls = <<>>
    /\ handles = [p \in DOMAIN Libraries |-> 0]
    /\ ncalls = 0
    /\ last = [op |-> "none"]
    /\ loaded = <<>>

load_driver_registers_first(name, base, opt) ==
    /\ ncalls < MaxCalls
    /\ ncalls' = ncalls + 1
    /\ IF already_loaded(name, driver_names)
       THEN /\ last' = [op |-> "load", name |-> name, base |-> base, opt |-> opt,
                        events |-> <<>>, result |-> "ok"]
            /\ UNCHANGED <<driver_names, driver_calls, handles, loaded>>
       ELSE LET a == load_attempt(name, base, opt)
                func == <<LibPath(base, name), FactorySymbol(name)>>
            IN  /\ last' = [op |-> "load", name |-> name, base |-> base,
                            opt |-> opt, events |-> a.events, result |-> a.result]
                /\ handles' = HandlesAfter(handles, a.events)
                /\ driver_calls' = insert_begin(func, driver_calls)
                /\ driver_names' = insert_begin(name, driver_names)
                /\ loaded' = IF a.result = "ok"
                             THEN Append(loaded, [name |-> name, func |-> func])
                             ELSE loaded
    /\ UNCHANGED <<qvars, dvars>>

\* CameraDriver::load_driver, lines 17-44
load_driver(name, base, opt) ==
    /\ ncalls < MaxCalls
    /\ ncalls' = ncalls + 1
    /\ IF already_loaded(name, driver_names)
       THEN /\ last' = [op |-> "load", name |-> name, base |-> base, opt |-> opt,
                        events |-> <<>>, result |-> "ok"]
            /\ UNCHANGED <<driver_names, driver_calls, handles, loaded>>
       ELSE LET a == load_attempt(name, base, opt)
                func == <<LibPath(base, name), FactorySymbol(name)>>
            IN  /\ last' = [op |-> "load", name |-> name, base |-> base,
                            opt |-> opt, events |-> a.events, result |-> a.result]
                /\ handles' = HandlesAfter(handles, a.events)
                /\ IF a.result = "ok"
                   THEN /\ driver_calls' = insert_begin(func, driver_calls)
                        /\ driver_names' = insert_begin(name, driver_names)
                        /\ loaded' = Append(loaded, [name |-> name, func |-> func])
                   ELSE UNCHANGED <<driver_names, driver_calls, loaded>>
    /\ UNCHANGED <<qvars, dvars>>

\* CameraDriver::drivers, lines 46-49
drivers ==
    /\ ncalls < MaxCalls
    /\ ncalls' = ncalls + 1
    /\ last' = [op |-> "drivers", events |-> <<>>, result |-> driver_names]
    /\ UNCHANGED <<driver_names, driver_calls, handles, loaded>>
    /\ UNCHANGED <<qvars, dvars>>

\* the value of (unsigned)id for a 32-bit int, as its two 16-bit halves
ToUnsigned(id) == [hi |-> (id \div 65536) % 65536, lo |-> id % 65536]

\* a >= b for two 32-bit unsigned values
UnsignedGeq(a, b) == a.hi > b.hi \/ (a.hi = b.hi /\ a.lo >= b.lo)

id_out_of_range_signed(id, size) == id >= size

\* get, line 53
id_out_of_range(id, size) == UnsignedGeq(ToUnsigned(id), ToUnsigned(size))

\* CameraDriver::get, lines 51-59; vector::at throws std::out_of_range for an
\* index it does not hold
get(id, external_option) ==
    /\ ncalls < MaxCalls
    /\ ncalls' = ncalls + 1
    /\ LET me == [op |-> "get", id |-> id, external_option |-> external_option]
       IN
       IF id_out_of_range(id, Len(driver_calls))
       THEN last' = me @@ [events |-> <<>>, result |-> "Invalid driver id"]
       ELSE IF UnsignedGeq(ToUnsigned(id), ToUnsigned(Len(driver_calls)))
       THEN last' = me @@ [events |-> <<>>, result |-> "std::out_of_range"]
       ELSE LET func == driver_calls[id + 1]
                call == <<<<"call", func, external_option>>>>
            IN IF Libraries[func[1]].makes_null
               THEN last' = me @@ [events |-> call, result |-> "Failed to load camera"]
               ELSE last' = me @@ [events |-> call, result |-> "instance"]
    /\ UNCHANGED <<driver_names, driver_calls, handles, loaded>>
    /\ UNCHANGED <<qvars, dvars>>

(***************************************************************************)
(* String encodings of the tags (src/camera.cpp)                           *)
(***************************************************************************)
\* a returned value, and a thrown CamError with its message
Returned(v) == [ok |-> TRUE, value |-> v]
Thrown(msg) == [ok |-> FALSE, value |-> msg]

\* bayer_type_to_str, lines 84-94
bayer_type_to_str(bayer) ==
    CASE bayer = "bayer_na" -> Returned("NA")
      [] bayer = "bayer_rg" -> Returned("RGGB")
      [] bayer = "bayer_gr" -> Returned("GRBG")
      [] bayer = "bayer_bg" -> Returned("BGGR")
      [] bayer = "bayer_gb" -> Returned("GBRG")
      [] OTHER -> Thrown("Invalid format")

\* bayer_type_from_str, lines 96-104
bayer_type_from_str(bayer) ==
    IF bayer = "NA" THEN Returned("bayer_na")
    ELSE IF bayer = "RGGB" THEN Returned("bayer_rg")
    ELSE IF bayer = "GRBG" THEN Returned("bayer_gr")
    ELSE IF bayer = "BGGR" THEN Returned("bayer_bg")
    ELSE IF bayer = "GBRG" THEN Returned("bayer_gb")
    ELSE Thrown("Invalid bayer format")

\* stream_type_to_str, lines 114-128
stream_type_to_str(s) ==
    CASE s = "stream_yuv2" -> Returned("yuv2")
      [] s = "stream_rgb24" -> Returned("rgb24")
      [] s = "stream_rgb48" -> Returned("rgb48")
      [] s = "stream_raw8" -> Returned("raw8")
      [] s = "stream_raw16" -> Returned("raw16")
      [] s = "stream_mono8" -> Returned("mono8")
      [] s = "stream_mono16" -> Returned("mono16")
      [] s = "stream_mjpeg" -> Returned("mjpeg")
      [] OTHER -> Thrown("Invalid Stream type")

stream_type_from_str_raw_swapped(s) ==
    IF s = "mjpeg" THEN Returned("stream_mjpeg")
    ELSE IF s = "yuv2" THEN Returned("stream_yuv2")
    ELSE IF s = "rgb24" THEN Returned("stream_rgb24")
    ELSE IF s = "rgb48" THEN Returned("stream_rgb48")
    ELSE IF s = "raw8" THEN Returned("stream_raw16")
    ELSE IF s = "raw16" THEN Returned("stream_raw8")
    ELSE IF s = "mono8" THEN Returned("stream_mono8")
    ELSE IF s = "mono16" THEN Returned("stream_mono16")
    ELSE Thrown("Invalid stream type")

\* stream_type_from_str, lines 130-149
stream_type_from_str(s) ==
    IF s = "mjpeg" THEN Returned("stream_mjpeg")
    ELSE IF s = "yuv2" THEN Returned("stream_yuv2")
    ELSE IF s = "rgb24" THEN Returned("stream_rgb24")
    ELSE IF s = "rgb48" THEN Returned("stream_rgb48")
    ELSE IF s = "raw8" THEN Returned("stream_raw8")
    ELSE IF s = "raw16" THEN Returned("stream_raw16")
    ELSE IF s = "mono8" THEN Returned("stream_mono8")
    ELSE IF s = "mono16" THEN Returned("stream_mono16")
    ELSE Thrown("Invalid stream type")

\* line 152; C++ index i is position i + 1 here
cam_option_type_names ==
    <<"bool", "number", "msec", "percent", "kelvin", "celsius">>

\* cam_option_type_to_str, lines 154-160; an option type is its enum value
cam_option_type_to_str(type) ==
    IF UnsignedGeq(ToUnsigned(type), ToUnsigned(Len(cam_option_type_names)))
    THEN Thrown("Invalid type")
    ELSE Returned(cam_option_type_names[type + 1])

\* cam_option_type_from_str, lines 161-169: the first index whose name matches
RECURSIVE option_search(_, _)
option_search(i, name) ==
    IF i >= Len(cam_option_type_names) THEN Thrown("Invalid type:")
    ELSE IF cam_option_type_names[i + 1] = name THEN Returned(i)
    ELSE option_search(i + 1, name)

cam_option_type_from_str(name) == option_search(0, name)

Kinds == {"stream", "bayer", "option"}

\* the tags the conversions are called with: every enumerator the sources
\* name, stream_error and out-of-range values included
TagInputs(kind) ==
    CASE kind = "stream" ->
             {"stream_yuv2", "stream_rgb24", "stream_rgb48", "stream_raw8",
              "stream_raw16", "stream_mono8", "stream_mono16", "stream_mjpeg",
              "stream_error"}
      [] kind = "bayer" ->
             {"bayer_na", "bayer_rg", "bayer_gr", "bayer_bg", "bayer_gb",
              "bayer_out_of_range"}
      [] kind = "option" -> {-1, 0, 1, 2, 3, 4, 5, 6}

\* the strings the conversions are called with: every name of every kind,
\* and misspelt, empty and wrong-case strings
StringInputs ==
    {"yuv2", "rgb24", "rgb48", "raw8", "raw16", "mono8", "mono16", "mjpeg",
     "NA", "RGGB", "GRBG", "BGGR", "GBRG",
     "bool", "number", "msec", "percent", "kelvin", "celsius",
     "", "MJPEG", "Yuv2", "raw", "raw32", "na", "rggb", "RGBG",
     "Bool", "NUMBER", "error", "mono", "jpeg"}

to_str(kind, tag) ==
    CASE kind = "stream" -> stream_type_to_str(tag)
      [] kind = "bayer" -> bayer_type_to_str(tag)
      [] kind = "option" -> cam_option_type_to_str(tag)

from_str(kind, str) ==
    CASE kind = "stream" -> stream_type_from_str(str)
      [] kind = "bayer" -> bayer_type_from_str(str)
      [] kind = "option" -> cam_option_type_from_str(str)

\* a call of one of the three to-string functions
ToStr(kind, tag) ==
    /\ last' = [op |-> "to_str", kind |-> kind, tag |-> tag,
                result |-> to_str(kind, tag)]
    /\ UNCHANGED <<driver_names, driver_calls, handles, ncalls, loaded>>
    /\ UNCHANGED <<qvars, dvars>>

\* a call of one of the three from-string functions
FromStr(kind, str) ==
    /\ last' = [op |-> "from_str", kind |-> kind, str |-> str,
                result |-> from_str(kind, str)]
    /\ UNCHANGED <<driver_names, driver_calls, handles, ncalls, loaded>>
    /\ UNCHANGED <<qvars, dvars>>

\* the string a to-string call returned is handed to the from-string function
\* of the same kind
RoundTrip ==
    /\ last.op = "to_str"
    /\ last.result.ok
    /\ last' = [op |-> "round_trip", kind |-> last.kind, tag |-> last.tag,
                str |-> last.result.value,
                result |-> from_str(last.kind, last.result.value)]
    /\ UNCHANGED <<driver_names, driver_calls, handles, ncalls, loaded>>
    /\ UNCHANGED <<qvars, dvars>>

(***************************************************************************)
(* Specifications                                                          *)
(***************************************************************************)
\* the dispatch stage at rest, for the queue's own specification
DIdle ==
    /\ DInit
    /\ has_plate = FALSE

InitQ == QInit /\ DIdle /\ CInit

SpecQ == InitQ /\ [][NextQ]_vars

\* a thread inside push or pop that can take its next step eventually takes
\* it; nothing obliges a call to be made or a spurious wake-up to happen
FairSpecQ ==
    /\ SpecQ
    /\ \A p \in Producers : WF_vars(ProducerStep(p))
    /\ \A c \in Consumers : WF_vars(ConsumerStep(c))

Init == QInit /\ DInit /\ CInit

Next ==
    \/ \E m \in Messages : Enqueue(m)
    \/ RunShutdown
    \/ RunFrame
    \/ RunControl
    \/ RunOther

Spec == Init /\ [][Next]_vars

\* the session states run() reaches with at most two control messages
ReachableSessions ==
    LET s0 == [active |-> FALSE, in_process |-> FALSE, debug |-> FALSE]
        one == {s0} \cup {ctl_switch(c.op, c.save_inputs, s0) : c \in ControlInputs}
    IN one \cup {ctl_switch(c.op, c.save_inputs, s) : c \in ControlInputs, s \in one}

\* the dispatch stage in any of its session states, its input drained
DInitF ==
    /\ data_queue_ = <<>>
    /\ live_out_ = <<>>
    /\ stack_out_ = <<>>
    /\ debug_out_ = <<>>
    /\ plate_solving_out_ = <<>>
    /\ has_plate \in BOOLEAN
    /\ \E s \in ReachableSessions :
          /\ stacking_active_ = s.active
          /\ stacking_in_process_ = s.in_process
          /\ debug_active_ = s.debug
    /\ pc = "run"
    /\ enq = <<>>
    /\ seen = <<>>
    /\ trace = <<>>

InitF == QInit /\ DInitF /\ CInit

InitR == QInit /\ DIdle /\ CInit

\* the ids get is called with: below, inside and beyond the registry
GetIds == {-2147483647, -1, 0, 1, 2, 3}

NextR ==
    \/ \E n \in DriverNames : \E b \in BasePaths : \E o \in Opts : load_driver(n, b, o)
    \/ drivers
    \/ \E i \in GetIds : \E x \in {0, 7} : get(i, x)

\* the driver registry under any sequence of calls
SpecR == InitR /\ [][NextR]_vars

InitS == QInit /\ DIdle /\ CInit

NextS ==
    \/ \E k \in Kinds : \E t \in TagInputs(k) : ToStr(k, t)
    \/ \E k \in Kinds : \E x \in StringInputs : FromStr(k, x)
    \/ RoundTrip

\* the string conversions under any sequence of calls
SpecS == InitS /\ [][NextS]_vars

NumFormatFrames == Cardinality({i \in 1..Len(enq) : enq[i] \in FormatFrames})

\* the capture thread pushes a frame of any format, or another producer
\* pushes one of the surrounding messages
EnqueueF(m) ==
    /\ Len(enq) < MaxMsgsF
    /\ m \in FormatFrames => NumFormatFrames < MaxFrames
    /\ data_queue_' = push_tail(data_queue_, [id |-> Len(enq) + 1, msg |-> m])
    /\ enq' = Append(enq, m)
    /\ UNCHANGED <<live_out_, stack_out_, debug_out_, plate_solving_out_,
                   has_plate, stacking_active_, stacking_in_process_,
                   debug_active_, pc, seen, trace>>
    /\ UNCHANGED <<qvars, cvars>>

NextF ==
    \/ \E m \in FormatFrames \cup AroundInputs : EnqueueF(m)
    \/ RunShutdown
    \/ RunFrame
    \/ RunControl
    \/ RunOther

\* the format pipeline: the dispatch loop fed frames of every format
SpecF == InitF /\ [][NextF]_vars

\* the messages of a stacking session: every control message and a frame
\* that process_frame forwards
SessionInputs ==
    ControlInputs \cup {m \in FrameInputs : m.format = "mjpeg"}

InitC == QInit /\ DInit /\ CInit

\* the control surface or the capture thread pushes a session message
EnqueueC(m) ==
    /\ Len(enq) < MaxMsgsC
    /\ data_queue_' = push_tail(data_queue_, [id |-> Len(enq) + 1, msg |-> m])
    /\ enq' = Append(enq, m)
    /\ UNCHANGED <<live_out_, stack_out_, debug_out_, plate_solving_out_,
                   has_plate, stacking_active_, stacking_in_process_,
                   debug_active_, pc, seen, trace>>
    /\ UNCHANGED <<qvars, cvars>>

NextC ==
    \/ \E m \in SessionInputs : EnqueueC(m)
    \/ RunFrame
    \/ RunControl

\* the dispatch loop fed control messages and frames only
SpecC == InitC /\ [][NextC]_vars

(***************************************************************************)
(* Properties of sync_queue                                                *)
(***************************************************************************)
PoppedVals == [i \in 1..Len(popped) |-> popped[i].val]

RECURSIVE SumOver(_, _)
SumOver(f, S) ==
    IF S = {} THEN 0
    ELSE LET x == CHOOSE y \in S : TRUE IN f[x] + SumOver(f, S \ {x})

\* calls of pop made so far
PopCalls == SumOver(npop, Consumers)

InPop(c) == qpc[c] \in {"pop_locked", "waiting", "woken"}

\* C2: the values pops have returned, in the order the pops completed, are
\* a prefix of the values pushed, in the order the pushes took the lock; what
\* is left of the pushed sequence is exactly the container's content, so no
\* value is lost, duplicated or returned to two consumers.
C2_FifoExactlyOnce ==
    /\ pushed = PoppedVals \o data_
    /\ \A i, j \in 1..Len(popped) : i # j => popped[i].val # popped[j].val

\* C2 witness: two producers' pushes interleaved and two different consumers
\* have each returned a value
C2_Witness ==
    /\ Len(popped) >= 3
    /\ \E i, j \in 1..Len(popped) : popped[i].by # popped[j].by
    /\ \E i, j \in 1..Len(pushed) : i < j /\ pushed[i][1] > pushed[j][1]

\* C3: a pop returns only by removing the head of a non-empty container and
\* returning it; a push that holds the mutex can always complete, it appends
\* at the tail, and the mutex is never held by a blocked thread, so push waits
\* neither for a consumer nor for space.
C3_PopNonEmptyPushNoWait ==
    /\ [][Len(popped') > Len(popped) =>
            /\ data_ # <<>>
            /\ popped' = Append(popped, popped'[Len(popped')])
            /\ popped'[Len(popped')].val = Head(data_)
            /\ data_' = Tail(data_)]_vars
    /\ [][Len(pushed') > Len(pushed) =>
            data_' = Append(data_, pushed'[Len(pushed')])]_vars
    /\ [](\A p \in Producers : qpc[p] = "push_locked" => ENABLED PushBody(p))
    /\ [](lock_ # NoThread => qpc[lock_] \in {"push_locked", "pop_locked"})
    /\ [](\A t \in Threads : qpc[t] \in {"waiting", "woken"} => lock_ # t)

\* C3 witness: a pop has returned after blocking on the empty container, and
\* a push has appended behind a value no consumer has taken yet
C3_Witness ==
    /\ \E i \in 1..Len(popped) : popped[i].waited
    /\ Len(data_) >= 2

\* C4 (under FairSpecQ): once j pushes have been performed and j calls of
\* pop have been made, at least j pops eventually return: min(N, k) consumers
\* return for N callers and k pushes; in particular a non-empty container
\* with a consumer inside pop leads to a pop returning.
C4_NoLostWakeup ==
    /\ \A j \in 1..(Cardinality(Consumers) * MaxPop) :
          (Len(pushed) >= j /\ PopCalls >= j) ~> (Len(popped) >= j)
    /\ \A j \in 0..(Cardinality(Consumers) * MaxPop) :
          (data_ # <<>> /\ Len(popped) = j /\ \E c \in Consumers : InPop(c))
              ~> (Len(popped) > j)

\* C4 witness: every consumer was blocked in cond_.wait and has returned
C4_Witness ==
    /\ \A c \in Consumers : \E i \in 1..Len(popped) :
          popped[i].by = c /\ popped[i].waited
    /\ Len(pushed) >= Cardinality(Consumers)

(***************************************************************************)
(* Properties of the dispatch stage                                        *)
(***************************************************************************)
\* messages popped so far; message k of enq is popped when k <= nread
nread == Len(seen)

Count(out, k) == Cardinality({i \in 1..Len(out) : out[i].id = k})
In(out, k) == Count(out, k) >= 1
Ordered(out) == \A i, j \in 1..Len(out) : i < j => out[i].id < out[j].id

\* the items of out whose message carries one of the tags, in out's order
RECURSIVE Only(_, _)
Only(out, tags) ==
    IF out = <<>> THEN <<>>
    ELSE IF Head(out).msg.tag \in tags
         THEN <<Head(out)>> \o Only(Tail(out), tags)
         ELSE Only(Tail(out), tags)

\* the first n messages enqueued, as the items the input queue held
Items(n) == [k \in 1..n |-> [id |-> k, msg |-> enq[k]]]

IsCtl(k, ops) == enq[k].tag = "Control" /\ enq[k].op \in ops

\* C1: on each of the live, stack and debug outputs the messages appear in
\* the order of the input queue (ids grow along every output, and each item
\* is the message enqueued under that id); so a frame, a control message
\* enqueued after it and a frame enqueued after that keep this order on
\* every output that receives them.
C1_OrderingBarrier ==
    /\ Ordered(live_out_) /\ Ordered(stack_out_) /\ Ordered(debug_out_)
    /\ \A i \in 1..Len(live_out_) : live_out_[i].msg = enq[live_out_[i].id]
    /\ \A i \in 1..Len(stack_out_) : stack_out_[i].msg = enq[stack_out_[i].id]
    /\ \A i \in 1..Len(debug_out_) : debug_out_[i].msg = enq[debug_out_[i].id]

\* C1 witness: the stacking and debug outputs hold a frame, then a control
\* message, then a frame
C1_Witness ==
    /\ \E i \in 1..Len(stack_out_) : \E j \in 1..Len(stack_out_) :
       \E k \in 1..Len(stack_out_) :
          /\ i < j /\ j < k
          /\ stack_out_[i].msg.tag = "Frame"
          /\ stack_out_[j].msg.tag = "Control"
          /\ stack_out_[k].msg.tag = "Frame"
    /\ Len(debug_out_) >= 4

\* the transition table of the control operations: T, F, = (unchanged),
\* flag (the carried save-inputs flag)
TransitionTable ==
    [init   |-> <<"T", "T", "flag">>,
     resume |-> <<"T", "T", "=">>,
     pause  |-> <<"F", "T", "=">>,
     save   |-> <<"F", "F", "=">>,
     cancel |-> <<"F", "F", "=">>,
     update |-> <<"=", "=", "=">>]

Cell(c, old, flag) ==
    CASE c = "T" -> TRUE
      [] c = "F" -> FALSE
      [] c = "=" -> old
      [] c = "flag" -> flag

TableStep(st, m) ==
    IF m.tag # "Control" THEN st
    ELSE LET row == TransitionTable[m.op] IN
         <<Cell(row[1], st[1], m.save_inputs),
           Cell(row[2], st[2], m.save_inputs),
           Cell(row[3], st[3], m.save_inputs)>>

RECURSIVE TableFold(_)
TableFold(n) ==
    IF n = 0 THEN <<FALSE, FALSE, FALSE>>
    ELSE TableStep(TableFold(n - 1), enq[n])

\* C5: the session state is the fold of the transition table over the
\* messages popped so far, starting from (false, false, false); messages
\* that are not control messages leave it unchanged.
C5_TransitionTable ==
    <<stacking_active_, stacking_in_process_, debug_active_>> = TableFold(nread)

\* C5 witness: a resume has been processed after a save or cancel, with a
\* frame processed somewhere, and the session is active with debug set
C5_Witness ==
    /\ nread >= 4
    /\ stacking_active_ /\ debug_active_
    /\ \E i \in 1..nread : \E j \in 1..nread :
          i < j /\ IsCtl(i, {"save", "cancel", "pause"}) /\ IsCtl(j, {"resume"})
    /\ \E k \in 1..nread : enq[k].tag = "Frame"

\* C6: every control message popped is on each of the live, stack and debug
\* outputs exactly once, as the message that was enqueued, and never on the
\* plate-solving output; in its iteration the switch on the operation comes
\* before the three pushes.
C6_ControlForwarded ==
    /\ \A k \in 1..nread : enq[k].tag = "Control" =>
          /\ Count(live_out_, k) = 1
          /\ Count(stack_out_, k) = 1
          /\ Count(debug_out_, k) = 1
          /\ Count(plate_solving_out_, k) = 0
          /\ [id |-> k, msg |-> enq[k]] \in
                Range(live_out_) \cap Range(stack_out_) \cap Range(debug_out_)
    /\ (nread > 0 /\ enq[nread].tag = "Control") =>
          /\ \E i \in 1..Len(trace) : trace[i] = <<"switch", enq[nread].op>>
          /\ \A i, j \in 1..Len(trace) :
                (trace[i][1] = "switch" /\ trace[j][1] = "push") => i < j
          /\ {trace[j] : j \in {i \in 1..Len(trace) : trace[i][1] = "push"}}
                = {<<"push", "live">>, <<"push", "stack">>, <<"push", "debug">>}

\* C6 witness: with a plate-solving output registered, control messages have
\* been processed both in the initial state and in an active session
C6_Witness ==
    /\ has_plate
    /\ \E k \in 1..nread : enq[k].tag = "Control" /\ seen[k].active /\ seen[k].debug
    /\ \E k \in 1..nread : enq[k].tag = "Control" /\ ~seen[k].in_process
    /\ \E k \in 1..nread : IsCtl(k, {"update"})

\* C7: a frame that process_frame carried to its fan-out is on the live
\* output exactly once; on the stacking output exactly once if
\* stacking_active_ held when it was processed, else not at all; on the debug
\* output iff debug_active_ and stacking_active_ held; on the plate-solving
\* output iff that output is registered and stacking_in_process_ did not hold.
C7_FrameFanOut ==
    \A k \in 1..nread : (enq[k].tag = "Frame" /\ seen[k].result = "fwd") =>
        /\ Count(live_out_, k) = 1
        /\ Count(stack_out_, k) = (IF seen[k].active THEN 1 ELSE 0)
        /\ Count(debug_out_, k) = (IF seen[k].debug /\ seen[k].active THEN 1 ELSE 0)
        /\ Count(plate_solving_out_, k) =
              (IF has_plate /\ ~seen[k].in_process THEN 1 ELSE 0)

\* C7 witness: with a plate-solving output registered, one frame was
\* forwarded in an active session with debug set and one in a paused session
C7_Witness ==
    /\ has_plate
    /\ \E k \in 1..nread : /\ enq[k].tag = "Frame" /\ seen[k].result = "fwd"
                           /\ seen[k].debug /\ ~seen[k].active
    /\ \E k \in 1..nread : /\ enq[k].tag = "Frame" /\ seen[k].result = "fwd"
                           /\ seen[k].debug /\ seen[k].active

\* a frame process_frame has no reason to reject
ValidFrame(m) ==
    /\ m.tag = "Frame"
    /\ bpp_of(m.format) # 0
    /\ (bpp_of(m.format) > 0 => m.size = m.width * m.height * bpp_of(m.format))
    /\ (m.format \in {"raw8", "raw16"} => m.bayer \in BayerPatterns)
    /\ m.decode = "ok"

\* no control message with an operation of ops lies strictly between i and k
NoneBetween(i, k, ops) == \A j \in (i + 1)..(k - 1) : ~IsCtl(j, ops)

ControlsInOrder ==
    LET ctl == Only(Items(nread), {"Control"}) IN
    /\ Only(live_out_, {"Control"}) = ctl
    /\ Only(stack_out_, {"Control"}) = ctl
    /\ Only(debug_out_, {"Control"}) = ctl

\* C8 as stated: a valid frame after an init(debug=true) with no pause, save
\* or cancel in between is on live, stack and debug; a valid frame after a
\* pause with no init or resume in between is on live only; the control
\* messages reach live, stack and debug in input order.
C8_Original ==
    /\ \A k \in 1..nread :
          (/\ ValidFrame(enq[k])
           /\ \E i \in 1..(k - 1) :
                 /\ IsCtl(i, {"init"}) /\ enq[i].save_inputs
                 /\ NoneBetween(i, k, {"pause", "save", "cancel"}))
          => (In(live_out_, k) /\ In(stack_out_, k) /\ In(debug_out_, k))
    /\ \A k \in 1..nread :
          (/\ ValidFrame(enq[k])
           /\ \E i \in 1..(k - 1) :
                 /\ IsCtl(i, {"pause"})
                 /\ NoneBetween(i, k, {"init", "resume"}))
          => (/\ In(live_out_, k) /\ ~In(stack_out_, k)
              /\ ~In(debug_out_, k) /\ ~In(plate_solving_out_, k))
    /\ ControlsInOrder

\* C8 as amended: a valid frame after an init(debug=true) with no further
\* init and no pause, save or cancel in between is on live, stack and debug;
\* a valid frame after a pause with no init, resume, save or cancel in
\* between is on live only; the control messages reach live, stack and
\* debug in input order.
C8_SessionScenario ==
    /\ \A k \in 1..nread :
          (/\ ValidFrame(enq[k])
           /\ \E i \in 1..(k - 1) :
                 /\ IsCtl(i, {"init"}) /\ enq[i].save_inputs
                 /\ NoneBetween(i, k, {"init", "pause", "save", "cancel"}))
          => (In(live_out_, k) /\ In(stack_out_, k) /\ In(debug_out_, k))
    /\ \A k \in 1..nread :
          (/\ ValidFrame(enq[k])
           /\ \E i \in 1..(k - 1) :
                 /\ IsCtl(i, {"pause"})
                 /\ NoneBetween(i, k, {"init", "resume", "save", "cancel"}))
          => (/\ In(live_out_, k) /\ ~In(stack_out_, k)
              /\ ~In(debug_out_, k) /\ ~In(plate_solving_out_, k))
    /\ ControlsInOrder

\* C8 witness: init(debug=true), a valid frame, pause, a valid frame, with a
\* plate-solving output registered
C8_Witness ==
    /\ has_plate
    /\ nread = 4
    /\ IsCtl(1, {"init"}) /\ enq[1].save_inputs
    /\ ValidFrame(enq[2])
    /\ IsCtl(3, {"pause"})
    /\ ValidFrame(enq[4])

Sentinels(out) == Len(Only(out, {"Shutdown"}))

EndsWithSentinel(out) ==
    /\ out # <<>>
    /\ out[Len(out)] = [id |-> nread, msg |-> ShutDownData]
    /\ Sentinels(out) = 1

C10_SentinelOnEveryOutput ==
    pc = "done" =>
        /\ Sentinels(live_out_) = 1
        /\ Sentinels(stack_out_) = 1
        /\ Sentinels(debug_out_) = 1
        /\ (has_plate => Sentinels(plate_solving_out_) = 1)

(***************************************************************************)
(* Properties of the format pipeline and of dropped messages               *)
(***************************************************************************)
OnNoOutput(k) ==
    /\ Count(live_out_, k) = 0
    /\ Count(stack_out_, k) = 0
    /\ Count(debug_out_, k) = 0
    /\ Count(plate_solving_out_, k) = 0

\* every popped message that is Bad is on no output
PushedNowhere(Bad(_)) == \A k \in 1..nread : Bad(enq[k]) => OnNoOutput(k)

\* the iteration that pops a Bad message removes exactly that message from
\* the input, pushes nothing, leaves the session state alone and stays in
\* the loop: what follows meets the state and the queue it would have met
\* without the message
SkippedOver(Bad(_)) ==
    (/\ data_queue_ # <<>>
     /\ Bad(Head(data_queue_).msg)
     /\ Len(seen') = Len(seen) + 1)
    => /\ pc = "run" /\ pc' = "run"
       /\ data_queue_' = Tail(data_queue_)
       /\ UNCHANGED <<live_out_, stack_out_, debug_out_, plate_solving_out_,
                      stacking_active_, stacking_in_process_, debug_active_>>

\* bytes per pixel of the fixed-size formats
BytesPerPixel ==
    [mono8 |-> 1, raw8 |-> 1, yuv2 |-> 2, mono16 |-> 2, raw16 |-> 2,
     rgb24 |-> 3, rgb48 |-> 6]

LengthMismatch(m) ==
    /\ m.tag = "Frame"
    /\ m.format \in DOMAIN BytesPerPixel
    /\ m.size # m.width * m.height * BytesPerPixel[m.format]

\* C11: a frame of a fixed-size format whose buffer length differs from
\* width*height*bytes-per-pixel is pushed to no output, leaves the session
\* state unchanged and the loop goes on; an mjpeg frame is dropped only when
\* decoding throws, never for its length.
C11_LengthValidation ==
    /\ [](PushedNowhere(LengthMismatch))
    /\ [][SkippedOver(LengthMismatch)]_vars
    /\ [](\A k \in 1..nread :
            (enq[k].tag = "Frame" /\ enq[k].format = "mjpeg"
             /\ enq[k].decode # "throws") => seen[k].result = "fwd")

\* C11 witness: an rgb48 frame of the length of an rgb24 frame was popped in
\* an active session and the control message behind it was forwarded
C11_Witness ==
    /\ nread = 2
    /\ enq[1].tag = "Frame" /\ enq[1].format = "rgb48" /\ enq[1].size = 6
    /\ seen[1].active
    /\ Len(live_out_) = 1 /\ live_out_[1].id = 2

UnsupportedFormat(m) ==
    /\ m.tag = "Frame"
    /\ m.format \notin {"mjpeg"} \cup DOMAIN BytesPerPixel

\* C12: a frame with the error tag or an unsupported format tag is pushed to
\* no output, leaves the session state unchanged and does not end the loop;
\* its iteration changes nothing but the input queue's head, so every message
\* behind it is processed as if the frame had not been enqueued.
C12_ErrorIsolation ==
    /\ [](PushedNowhere(UnsupportedFormat))
    /\ [][SkippedOver(UnsupportedFormat)]_vars
    /\ [](\A k \in 1..nread : UnsupportedFormat(enq[k]) => seen[k].result = "drop")

\* C12 witness: an error-tag frame was popped with a plate-solving output
\* registered and the message behind it was forwarded
C12_Witness ==
    /\ nread = 2
    /\ enq[1].tag = "Frame" /\ enq[1].format = "error"
    /\ has_plate
    /\ Len(live_out_) = 1 /\ live_out_[1].id = 2

\* C13: an mjpeg frame whose decoding fails (cv::imdecode throws, or answers
\* with an empty matrix) while stacking is active or a plate-solving output
\* is registered is pushed to no output.
C13_DecodeFailureDropped ==
    \A k \in 1..nread :
        (/\ enq[k].tag = "Frame" /\ enq[k].format = "mjpeg"
         /\ enq[k].decode # "ok"
         /\ (seen[k].active \/ has_plate))
        => OnNoOutput(k)

NotForDispatch(m) == m.tag \notin {"Frame", "Control", "Shutdown"}

\* C14: a message that is neither Frame, Control nor Shutdown is pushed to
\* no output, leaves the session state unchanged, and the loop continues.
C14_OtherDropped ==
    /\ [](PushedNowhere(NotForDispatch))
    /\ [][SkippedOver(NotForDispatch)]_vars

\* C14 witness: a Stats and an Error message were popped in an active
\* session and a frame behind them was forwarded
C14_Witness ==
    /\ nread = 4
    /\ enq[2].tag = "Stats" /\ enq[3].tag = "Error"
    /\ seen[2].active
    /\ In(stack_out_, 4) /\ enq[4].tag = "Frame"

Forwarded(k) == enq[k].tag = "Frame" /\ seen[k].result = "fwd"
Needed(k) == seen[k].active \/ has_plate

\* C20 as stated: a forwarded frame has its working matrix and its raw view
\* set only if stacking was active or a plate-solving output was registered
\* when it was processed; otherwise the JPEG rendition is the only one set;
\* every forwarded frame has its JPEG rendition set.
C20_Original ==
    \A k \in 1..nread : Forwarded(k) =>
        /\ seen[k].obj.jpeg_frame # "null"
        /\ (seen[k].obj.frame # "null" => Needed(k))
        /\ (seen[k].obj.raw # "null" => Needed(k))

\* C20 as amended: a forwarded frame has its working matrix set only if
\* stacking was active or a plate-solving output was registered; the raw view
\* of an mjpeg frame likewise, while the raw view of every uncompressed frame
\* is set whatever the session state; every forwarded frame has its JPEG
\* rendition set.
C20_LazyDecoding ==
    \A k \in 1..nread : Forwarded(k) =>
        /\ seen[k].obj.jpeg_frame # "null"
        /\ (seen[k].obj.frame # "null" => Needed(k))
        /\ (enq[k].format = "mjpeg" => (seen[k].obj.raw # "null" => Needed(k)))
        /\ (enq[k].format # "mjpeg" => seen[k].obj.raw # "null")

\* C20 witness: a yuv2 frame was forwarded with stacking inactive and no
\* plate-solving output; it carries a JPEG rendition and a raw view but no
\* working matrix
C20_Witness ==
    /\ ~has_plate
    /\ \E k \in 1..nread :
          /\ Forwarded(k) /\ enq[k].format = "yuv2" /\ ~seen[k].active
          /\ seen[k].obj = [jpeg_frame |-> "encoded", frame |-> "null",
                            raw |-> "view", frame_dr |-> 255]


(***************************************************************************)
(* Driver registry claims                                                  *)
(***************************************************************************)
Reverse(q) == [i \in 1..Len(q) |-> q[Len(q) + 1 - i]]

\* the factory that the history pairs with a loaded name
FuncLoadedWith(name) ==
    loaded[CHOOSE i \in 1..Len(loaded) : loaded[i].name = name].func

\* C15: after the loads that succeeded, of distinct names n1..nk in that
\* order, drivers() returns nk..n1 and the factory list is the factories of
\* those loads in the same reversed order, so both lists have equal length
\* and index i of one belongs to index i of the other; a get(i, opt) with i
\* in range invokes the factory that was loaded with the name at index i.
C15_RegistryLifo ==
    /\ \A i, j \in 1..Len(loaded) : loaded[i].name = loaded[j].name => i = j
    /\ Len(driver_names) = Len(driver_calls)
    /\ driver_names = Reverse([i \in 1..Len(loaded) |-> loaded[i].name])
    /\ driver_calls = Reverse([i \in 1..Len(loaded) |-> loaded[i].func])
    /\ last.op = "drivers" =>
           last.result = Reverse([i \in 1..Len(loaded) |-> loaded[i].name])
    /\ (last.op = "get" /\ last.id \in 0..(Len(driver_names) - 1)) =>
           /\ Len(last.events) = 1
           /\ last.events[1][2] = FuncLoadedWith(driver_names[last.id + 1])

\* three names loaded, and get(0) reached the newest one's factory
C15_Witness ==
    /\ Len(loaded) = 3
    /\ loaded[1].name = "a" /\ loaded[2].name = "b" /\ loaded[3].name = "c"
    /\ driver_names = <<"c", "b", "a">>
    /\ last.op = "get" /\ last.id = 0
    /\ last.events = <<<<"call", <<LibPath("", "c"), FactorySymbol("c")>>,
                         last.external_option>>>>

\* a step that is a call of load_driver
IsLoadStep == ncalls' = ncalls + 1 /\ last'.op = "load"

\* C16: a load_driver call with a name that is already in the registry
\* returns normally without any library call (no dlopen, no config call)
\* and leaves names, factories and open handles as they were, whatever the
\* base path and the config string.
C16_LoadIdempotent ==
    [][(IsLoadStep /\ (\E i \in 1..Len(driver_names) :
                            driver_names[i] = last'.name)) =>
           /\ last'.events = <<>>
           /\ last'.result = "ok"
           /\ UNCHANGED <<driver_names, driver_calls, handles>>]_vars

\* a name is loaded again from a directory that holds no library for it and
\* with a config string, and the call did nothing
C16_Witness ==
    /\ last.op = "load"
    /\ last.base = "d2" /\ last.opt = "cfg"
    /\ \E i \in 1..Len(driver_names) : driver_names[i] = last.name
    /\ last.events = <<>> /\ last.result = "ok"
    /\ Len(driver_names) = 2

\* C17: get(id, external_option) with id outside 0..size-1 (negative ids
\* and every id on an empty registry included) raises the domain error and
\* invokes no factory; with id in range it invokes exactly the factory at
\* that index, once, with external_option, and a null result raises the
\* domain error.
C17_GetBounds ==
    last.op = "get" =>
        IF last.id \in 0..(Len(driver_calls) - 1)
        THEN /\ last.events = <<<<"call", driver_calls[last.id + 1],
                                  last.external_option>>>>
             /\ Libraries[driver_calls[last.id + 1][1]].makes_null
                    => last.result = "Failed to load camera"
             /\ ~Libraries[driver_calls[last.id + 1][1]].makes_null
                    => last.result = "instance"
        ELSE /\ last.events = <<>>
             /\ last.result = "Invalid driver id"

\* a negative id was refused on a registry of two drivers
C17_Witness ==
    /\ last.op = "get" /\ last.id = -1
    /\ Len(driver_calls) = 2
    /\ last.result = "Invalid driver id"

\* the library load_driver opens for a name from a base path lacks the
\* factory symbol, or lacks the config symbol while a config string is given
SymbolMissing(name, base, opt) ==
    /\ LibPath(base, name) \in DOMAIN Libraries
    /\ \/ FactorySymbol(name) \notin Libraries[LibPath(base, name)].exports
       \/ /\ opt # NullOpt
          /\ ConfigSymbol(name) \notin Libraries[LibPath(base, name)].exports

\* C18: when load_driver of a name not yet loaded opens a library in which
\* the factory symbol is missing, or the config symbol is missing while a
\* config string was supplied, the call ends in the domain error and the
\* handle it opened has been closed again: its last library call is the
\* dlclose of the path it opened and no handle stays open.
C18_ReleaseOnMissingSymbol ==
    [][(/\ IsLoadStep
        /\ ~(\E i \in 1..Len(driver_names) : driver_names[i] = last'.name)
        /\ SymbolMissing(last'.name, last'.base, last'.opt)) =>
           /\ last'.result \in {"Failed to find driver entry",
                                "Failed to find driver config entry"}
           /\ Head(last'.events) = <<"dlopen", LibPath(last'.base, last'.name)>>
           /\ last'.events[Len(last'.events)]
                  = <<"dlclose", LibPath(last'.base, last'.name)>>
           /\ handles' = handles
           /\ UNCHANGED <<driver_names, driver_calls>>]_vars

\* a load with a config string found the factory but not the config symbol
C18_Witness ==
    /\ last.op = "load"
    /\ last.result = "Failed to find driver config entry"
    /\ last.events = <<<<"dlopen", LibPath("d1", "b")>>,
                       <<"dlsym", FactorySymbol("b")>>,
                       <<"dlsym", ConfigSymbol("b")>>,
                       <<"dlclose", LibPath("d1", "b")>>>>
    /\ handles[LibPath("d1", "b")] = 0


(***************************************************************************)
(* String encoding claims                                                  *)
(***************************************************************************)
\* the tags that have a string, per kind
DefinedTags(kind) ==
    CASE kind = "stream" ->
             {"stream_yuv2", "stream_rgb24", "stream_rgb48", "stream_raw8",
              "stream_raw16", "stream_mono8", "stream_mono16", "stream_mjpeg"}
      [] kind = "bayer" ->
             {"bayer_na", "bayer_rg", "bayer_gr", "bayer_bg", "bayer_gb"}
      [] kind = "option" -> 0..5

\* the strings of those tags, per kind
DefinedStrings(kind) ==
    CASE kind = "stream" ->
             {"yuv2", "rgb24", "rgb48", "raw8", "raw16", "mono8", "mono16",
              "mjpeg"}
      [] kind = "bayer" -> {"NA", "RGGB", "GRBG", "BGGR", "GBRG"}
      [] kind = "option" ->
             {"bool", "number", "msec", "percent", "kelvin", "celsius"}

\* C19: for every defined stream-format, Bayer and option-type tag the
\* to-string function returns a string of the defined set and the from-string
\* function maps that string back to the same tag; for every string that is
\* not, letter for letter, one of the defined strings of the kind, the
\* from-string function raises the domain error.
C19_RoundTrip ==
    /\ (last.op = "to_str" /\ last.tag \in DefinedTags(last.kind)) =>
           last.result.ok /\ last.result.value \in DefinedStrings(last.kind)
    /\ (last.op = "round_trip" /\ last.tag \in DefinedTags(last.kind)) =>
           last.result.ok /\ last.result.value = last.tag
    /\ (last.op = "from_str" /\ last.str \notin DefinedStrings(last.kind)) =>
           ~last.result.ok
    /\ (last.op = "from_str" /\ last.str \in DefinedStrings(last.kind)) =>
           last.result.ok /\ last.result.value \in DefinedTags(last.kind)

\* raw16 went to its string and back
C19_Witness ==
    /\ last.op = "round_trip"
    /\ last.kind = "stream" /\ last.tag = "stream_raw16"
    /\ last.str = "raw16"
    /\ last.result = Returned("stream_raw16")


(***************************************************************************)
(* Stacking session claims                                                 *)
(***************************************************************************)
\* the ids of the frames on an output
FrameIds(out) == {out[i].id : i \in {j \in 1..Len(out) : out[j].msg.tag = "Frame"}}

\* C21: in every reachable state, and in every state a message met when it
\* was popped, stacking_active_ implies stacking_in_process_; hence no frame
\* is on both the stacking output and the plate-solving output.
C21_MutualExclusion ==
    /\ stacking_active_ => stacking_in_process_
    /\ \A k \in 1..Len(seen) : seen[k].active => seen[k].in_process
    /\ FrameIds(stack_out_) \cap FrameIds(plate_solving_out_) = {}

\* with a plate-solving output registered, one frame went to plate solving
\* and, after a control message, another went to stacking
C21_Witness ==
    /\ has_plate
    /\ stacking_active_
    /\ FrameIds(stack_out_) # {}
    /\ FrameIds(plate_solving_out_) # {}


\* message k was enqueued after a control message with an operation of
\* starts and no save or cancel lies between the two
Since(k, starts) ==
    \E i \in 1..(k - 1) :
        IsCtl(i, starts) /\ NoneBetween(i, k, {"save", "cancel"})

\* frame k was popped and process_frame reached its fan-out
Processed(k) ==
    k <= nread /\ enq[k].tag = "Frame" /\ seen[k].result = "fwd"

\* the plate-solving output holds the processed frames outside the
\* suspension that starts opens, once each, and none inside it
PlateFollows(starts) ==
    \A k \in 1..Len(enq) : Processed(k) =>
        IF Since(k, starts) \/ ~has_plate
        THEN Count(plate_solving_out_, k) = 0
        ELSE Count(plate_solving_out_, k) = 1

\* C22 as stated: from the processing of an init or resume until the
\* processing of the next save or cancel no frame is pushed to the
\* plate-solving output; before the first init or resume and after each save
\* or cancel, with a plate-solving output registered, every processed frame
\* is pushed to it.
C22_Original == PlateFollows({"init", "resume"})

\* C22, amended: plate solving is suspended from the processing of an init,
\* resume or pause until the processing of the next save or cancel; a
\* processed frame with no init, resume or pause since the last save or
\* cancel (or since the start) is pushed to a registered plate-solving
\* output exactly once, and no other frame is pushed to it.
C22_PlateSuspended == PlateFollows({"init", "resume", "pause"})

\* with a plate-solving output registered: init, pause, a frame that is kept
\* from plate solving, save, and a frame that reaches it
C22_Witness ==
    /\ has_plate
    /\ nread = 5
    /\ IsCtl(1, {"init"}) /\ IsCtl(2, {"pause"}) /\ IsCtl(4, {"save"})
    /\ Processed(3) /\ Processed(5)
    /\ Count(plate_solving_out_, 3) = 0
    /\ Count(plate_solving_out_, 5) = 1


(***************************************************************************)
(* Failed loads                                                            *)
(***************************************************************************)
LoadErrors ==
    {"Failed to load driver", "Failed to find driver entry",
     "Failed to find driver config entry", "Failed to config driver"}

\* C23: a load_driver call that ends in a domain error (library not
\* loadable, factory symbol missing, config symbol missing, config function
\* returning non-zero) leaves the name list and the factory list as they
\* were; a load_driver call for a name that is not in the registry, as after
\* such a failure, ends either in one of these errors or in success, and in
\* both cases starts by opening the library instead of returning at once.
C23_FailedLoadLeavesRegistry ==
    [][IsLoadStep =>
          /\ last'.result \in LoadErrors \cup {"ok"}
          /\ last'.result \in LoadErrors =>
                 UNCHANGED <<driver_names, driver_calls>>
          /\ (/\ last.op = "load"
              /\ last.result \in LoadErrors
              /\ last'.name = last.name) =>
                 /\ last'.events # <<>>
                 /\ Head(last'.events)
                        = <<"dlopen", LibPath(last'.base, last'.name)>>]_vars

\* the load of c from d1 failed in its config function, and the next load of
\* c, from the working directory, went through and registered it
C23_Witness ==
    /\ ncalls = 2
    /\ handles[LibPath("d1", "c")] = 1
    /\ last.op = "load" /\ last.name = "c" /\ last.base = ""
    /\ last.result = "ok"
    /\ last.events # <<>>
    /\ last.events[1] = <<"dlopen", LibPath("", "c")>>
    /\ driver_names = <<"c">>


(***************************************************************************)
(* Raw frames without a Bayer pattern; writes to a shared frame            *)
(***************************************************************************)
NonBayerRaw(m) ==
    /\ m.tag = "Frame"
    /\ m.format \in {"raw8", "raw16"}
    /\ m.size = m.width * m.height * BytesPerPixel[m.format]
    /\ m.bayer \notin {"RGGB", "GRBG", "BGGR", "GBRG"}

\* C24: a raw8 or raw16 frame whose Bayer tag is none of RGGB, GRBG, BGGR and
\* GBRG is pushed to no output, and the iteration that pops it leaves the
\* session state alone and stays in the loop.
C24_NonBayerDropped ==
    /\ [](PushedNowhere(NonBayerRaw))
    /\ [][SkippedOver(NonBayerRaw)]_vars

\* the positions of the latest iteration's events of one kind
TraceAt(kind) == {i \in 1..Len(trace) : trace[i][1] = kind}

\* every item with id k on any output is the one object enqueued under k
SameObject(out) ==
    \A i \in 1..Len(out) : out[i] = [id |-> out[i].id, msg |-> enq[out[i].id]]

\* C25: within the iteration that processes a frame every write to the frame
\* (JPEG rendition, working matrix, raw view, dynamic range) precedes the
\* first push; every output the frame is pushed to receives the same frame
\* object; an iteration writes only to the frame it popped, which is on no
\* output when the iteration starts, and it is pushed at most once to each
\* output, so the dispatch stage never writes to a frame that is already on
\* an output queue.
C25_WriteBeforePublish ==
    /\ [](\A i \in TraceAt("push") : \A j \in TraceAt("write") : j < i)
    /\ [](/\ SameObject(live_out_) /\ SameObject(stack_out_)
          /\ SameObject(debug_out_) /\ SameObject(plate_solving_out_))
    /\ [](\A k \in 1..Len(enq) :
             /\ Count(live_out_, k) <= 1 /\ Count(stack_out_, k) <= 1
             /\ Count(debug_out_, k) <= 1 /\ Count(plate_solving_out_, k) <= 1)
    /\ [][(Len(seen') = Len(seen) + 1 /\ data_queue_ # <<>>)
             => /\ trace'[1] = <<"pop", Head(data_queue_).id>>
                /\ OnNoOutput(Head(data_queue_).id)
                /\ \A k \in 1..Len(seen) : seen'[k] = seen[k]]_vars

\* a raw frame in an active session with a plate-solving output took all
\* four writes and was then pushed to live and stack
C25_Witness ==
    /\ has_plate
    /\ nread >= 1
    /\ Cardinality(TraceAt("write")) = 4
    /\ Cardinality(TraceAt("push")) >= 2
    /\ trace[1][1] = "pop"
    /\ enq[trace[1][2]].tag = "Frame" /\ enq[trace[1][2]].format = "raw16"
    /\ Count(live_out_, trace[1][2]) = 1 /\ Count(stack_out_, trace[1][2]) = 1
    /\ seen[trace[1][2]].obj = [jpeg_frame |-> "encoded", frame |-> "matrix",
                                raw |-> "view", frame_dr |-> 65535]

====
